---- MODULE Spec2Model ----
(***************************************************************************)
(* Model of src/models.py: the persistence schema of the scanning          *)
(* application (User, Scan, Device, Vulnerability, Report,                 *)
(* ThreatIntelligence, FirewallRule, SolarAssessment) and the two          *)
(* credential methods of User.                                             *)
(*                                                                         *)
(* One action is one unit of work of the session: the objects are built,   *)
(* added or deleted, and committed.  A commit that the storage layer       *)
(* rejects raises IntegrityError and is rolled back: the tables are left   *)
(* as they were and `last` names the constraint that failed.               *)
(*                                                                         *)
(* A column value is an option: None is the empty set, the value v is {v}. *)
(* This is SQL's NULL: a NULL foreign key names no parent and passes the   *)
(* FOREIGN KEY check, and only NOT NULL rejects it.                        *)
(***************************************************************************)
EXTENDS Integers, Sequences, FiniteSets, TLC

VARIABLES
    db,       \* the stored rows: one set of rows per table
    last,     \* the last unit of work: [op, error, wrote]
    obj,      \* User objects in memory: name -> password_hash
    latest,   \* per User object, the plaintext last given to set_password
    issued,   \* every set_password call so far, in order
    ret       \* the last credential call: [op, u, password, raised, out]

vars == <<db, last, obj, latest, issued, ret>>

----------------------------------------------------------------------------
(* Bounds of the model. *)

\* Primary keys run over 1..MaxId in every table.
MaxId == 2
\* Rows over all tables together, in the specification of the whole schema.
MaxRows == 4
\* Rows over all tables together, in the specifications of a part of it.
MaxPartRows == 4
\* set_password calls recorded in `issued`.
MaxSetCalls == 2
\* Length of a plaintext password.
MaxPwLen == 1

----------------------------------------------------------------------------
(* Column values. *)

None == {}
Some(v) == {v}
Val(o) == CHOOSE v \in o : TRUE

Ids(T) == {r.id : r \in T}
MaxOf(S) == CHOOSE m \in S : \A n \in S : n <= m
\* An Integer primary key: the storage layer gives the next id.
NextId(T) == IF T = {} THEN 1 ELSE MaxOf(Ids(T)) + 1
Tables == {"user", "scan", "device", "vulnerability", "report",
           "threat_intelligence", "firewall_rule", "solar_assessment"}
RowCount(d) ==
    Cardinality(d.user) + Cardinality(d.scan) + Cardinality(d.device)
    + Cardinality(d.vulnerability) + Cardinality(d.report)
    + Cardinality(d.threat_intelligence) + Cardinality(d.firewall_rule)
    + Cardinality(d.solar_assessment)
\* The bound of a specification: at most k rows, ids within 1..MaxId.
Within(d, k) == RowCount(d) <= k /\ \A t \in Tables : Ids(d[t]) \subseteq 1..MaxId

IdInputs == {None} \cup {Some(i) : i \in 1..MaxId}
Usernames == {None, Some("alice"), Some("bob")}
Emails == {None, Some("a@x"), Some("b@x")}
Texts == {None, Some("text")}
ScanStatus == {"pending", "running", "completed", "failed"}

----------------------------------------------------------------------------
(* Credentials: User.set_password and User.check_password, which call      *)
(* werkzeug.security.generate_password_hash and check_password_hash.       *)
(* A string is a sequence of characters.                                   *)

PwChars == {"a", "b"}
RECURSIVE StringsUpTo(_)
StringsUpTo(n) ==
    IF n = 0 THEN {<<>>}
    ELSE LET shorter == StringsUpTo(n - 1)
         IN shorter \cup {Append(s, c) : s \in shorter, c \in PwChars}
Plaintexts == StringsUpTo(MaxPwLen)

\* gen_salt draws the salt at random from the letters and digits: any salt
\* may come out of any call, also one that came out before.
Salts == {<<"x">>, <<"y">>}
Method == <<"s", "c", "r", "y", "p", "t">>
Dollar == "$"

\* The characters that enter the digest, and the place of each.
DigestChars == <<"a", "b", "x", "y", "$">>
CharCode(c) == CHOOSE i \in 1..Len(DigestChars) : DigestChars[i] = c
RECURSIVE StrCode(_)
StrCode(s) ==
    IF s = <<>> THEN 0
    ELSE StrCode(SubSeq(s, 1, Len(s) - 1)) * Len(DigestChars) + CharCode(s[Len(s)])
HexDigits == <<"0", "1", "2", "3", "4", "5", "6", "7", "8", "9",
               "a", "b", "c", "d", "e", "f">>
RECURSIVE Hex(_)
Hex(n) ==
    IF n < 16 THEN <<HexDigits[n + 1]>>
    ELSE Hex(n \div 16) \o <<HexDigits[(n % 16) + 1]>>

\* _hash_internal(method, salt, password): the hex digest of the key derived
\* from the salt and the password.  The derivation is one-way and free of
\* collisions for all practical purposes; here it is a code of the salt and
\* the password that is one-to-one on the strings of the model.
hash_internal(method, salt, password) ==
    Hex(StrCode(salt \o <<Dollar>> \o password))

\* generate_password_hash with one salt for every call.
generate_password_hash_FixedSalt(password, salt) ==
    Method \o <<Dollar>> \o <<"x">> \o <<Dollar>>
           \o hash_internal(Method, <<"x">>, password)

\* generate_password_hash(password) with the salt gen_salt drew.
generate_password_hash(password, salt) ==
    Method \o <<Dollar>> \o salt \o <<Dollar>>
           \o hash_internal(Method, salt, password)

Count(s, c) == Cardinality({i \in 1..Len(s) : s[i] = c})
Find(s, c) == CHOOSE i \in 1..Len(s) : s[i] = c /\ \A j \in 1..(i - 1) : s[j] # c
\* pwhash.split("$", 2) of a string that holds two "$" or more.
Split2(s) ==
    LET i == Find(s, Dollar)
        rest == SubSeq(s, i + 1, Len(s))
        j == Find(rest, Dollar)
    IN <<SubSeq(s, 1, i - 1), SubSeq(rest, 1, j - 1), SubSeq(rest, j + 1, Len(rest))>>

\* check_password_hash with the salt of the stored string left out of the
\* digest it recomputes.
check_password_hash_NoSalt(pwhash, password) ==
    IF Count(pwhash, Dollar) < 2 THEN FALSE
    ELSE LET parts == Split2(pwhash)
         IN hash_internal(parts[1], <<>>, password) = parts[3]

\* check_password_hash(pwhash, password) of a string pwhash.
check_password_hash(pwhash, password) ==
    IF Count(pwhash, Dollar) < 2 THEN FALSE
    ELSE LET parts == Split2(pwhash)
         IN hash_internal(parts[1], parts[2], password) = parts[3]

UserObjects == {"u1", "u2"}

\* User.set_password(password), the salt being the one drawn.
SetPasswordWith(password, salt) == Some(generate_password_hash(password, salt))

\* User.check_password(password): what the call returns or raises.  An unset
\* password_hash is None, and None has no "$" to count: AttributeError.
CheckPasswordResult(hash, password) ==
    IF hash = None
    THEN [raised |-> "AttributeError", out |-> None]
    ELSE [raised |-> "", out |-> Some(check_password_hash(Val(hash), password))]

set_password(u, password) ==
    /\ Len(issued) < MaxSetCalls
    /\ \E salt \in Salts :
         LET h == SetPasswordWith(password, salt)
         IN /\ obj' = [obj EXCEPT ![u] = h]
            /\ issued' = Append(issued, [password |-> password, salt |-> salt,
                                         password_hash |-> Val(h)])
    /\ latest' = [latest EXCEPT ![u] = Some(password)]
    /\ ret' = [op |-> "set_password", u |-> u, password |-> password,
               raised |-> "", out |-> None]
    /\ UNCHANGED <<db, last>>

check_password(u, password) ==
    /\ LET r == CheckPasswordResult(obj[u], password)
       IN ret' = [op |-> "check_password", u |-> u, password |-> password,
                  raised |-> r.raised, out |-> r.out]
    /\ UNCHANGED <<obj, latest, issued, db, last>>

NoCall == [op |-> "", u |-> "u1", password |-> <<>>, raised |-> "", out |-> None]
NoWork == [op |-> "", error |-> "", wrote |-> {}]

InitCred ==
    /\ obj = [u \in UserObjects |-> None]
    /\ latest = [u \in UserObjects |-> None]
    /\ issued = <<>>
    /\ ret = NoCall

InitTables ==
    /\ db = [t \in Tables |-> {}]
    /\ last = NoWork

Init == InitTables /\ InitCred

NextCred ==
    \/ \E u \in UserObjects, p \in Plaintexts : set_password(u, p)
    \/ \E u \in UserObjects, p \in Plaintexts : check_password(u, p)

SpecCred == Init /\ [][NextCred]_vars

----------------------------------------------------------------------------
(* The schema: the constraints each class declares on its table.           *)

\* User: username, email and password_hash are nullable=False.
UserNotNull(r) == r.username # None /\ r.email # None /\ r.password_hash # None
\* User with unique=True on username alone.
UserUnique_UsernameOnly(T) ==
    \A a, b \in T : a.id # b.id => a.username # b.username

\* User: username and email are unique=True.
UserUnique(T) ==
    \A a, b \in T : a.id # b.id => a.username # b.username /\ a.email # b.email
\* Scan with a nullable user_id.
ScanNotNull_UserIdNullable(r) == r.name # None /\ r.network_range # None

\* Scan: user_id, name and network_range are nullable=False.
ScanNotNull(r) == r.user_id # None /\ r.name # None /\ r.network_range # None
\* Device: scan_id and ip_address are nullable=False.
DeviceNotNull(r) == r.scan_id # None /\ r.ip_address # None
\* Vulnerability: device_id and name are nullable=False.
VulnerabilityNotNull(r) == r.device_id # None /\ r.name # None
\* Report: user_id and scan_id are nullable=False.
ReportNotNull(r) == r.user_id # None /\ r.scan_id # None
\* ThreatIntelligence: title is nullable=False.
ThreatIntelligenceNotNull(r) == r.title # None
\* FirewallRule with a nullable name.
FirewallRuleNotNull_NameNullable(r) == r.user_id # None

\* FirewallRule: user_id and name are nullable=False.
FirewallRuleNotNull(r) == r.user_id # None /\ r.name # None
\* SolarAssessment: scan_id is nullable=False.
SolarAssessmentNotNull(r) == r.scan_id # None

NotNullHolds(d) ==
    /\ \A r \in d.user : UserNotNull(r)
    /\ \A r \in d.scan : ScanNotNull(r)
    /\ \A r \in d.device : DeviceNotNull(r)
    /\ \A r \in d.vulnerability : VulnerabilityNotNull(r)
    /\ \A r \in d.report : ReportNotNull(r)
    /\ \A r \in d.threat_intelligence : ThreatIntelligenceNotNull(r)
    /\ \A r \in d.firewall_rule : FirewallRuleNotNull(r)
    /\ \A r \in d.solar_assessment : SolarAssessmentNotNull(r)

\* The unique constraints of the schema: User's are the only ones.
UniqueHolds(d) == UserUnique(d.user)

\* Device.scan_id as a plain Integer column.
DeviceForeignKeys_Undeclared(d) == TRUE
\* Report with a foreign key on user_id alone.
ReportForeignKeys_UserOnly(d) ==
    \A r \in d.report : r.user_id \subseteq Ids(d.user)

\* db.ForeignKey(...): the column is None or the id of a row of the parent.
ScanForeignKeys(d) == \A r \in d.scan : r.user_id \subseteq Ids(d.user)
DeviceForeignKeys(d) == \A r \in d.device : r.scan_id \subseteq Ids(d.scan)
VulnerabilityForeignKeys(d) ==
    \A r \in d.vulnerability : r.device_id \subseteq Ids(d.device)
ReportForeignKeys(d) ==
    \A r \in d.report : r.user_id \subseteq Ids(d.user) /\ r.scan_id \subseteq Ids(d.scan)
FirewallRuleForeignKeys(d) ==
    \A r \in d.firewall_rule : r.user_id \subseteq Ids(d.user)
SolarAssessmentForeignKeys(d) ==
    \A r \in d.solar_assessment : r.scan_id \subseteq Ids(d.scan)

\* Whether the storage engine the application configures enforces the
\* FOREIGN KEY constraints the schema declares.  The engine is configured
\* where `db` is created (module app), so this is taken from the
\* specification: referential integrity is enforced at the storage layer.
ForeignKeysEnforced == TRUE

ForeignKeysHold(d) ==
    ForeignKeysEnforced =>
        /\ ScanForeignKeys(d)
        /\ DeviceForeignKeys(d)
        /\ VulnerabilityForeignKeys(d)
        /\ ReportForeignKeys(d)
        /\ FirewallRuleForeignKeys(d)
        /\ SolarAssessmentForeignKeys(d)

\* What the flush of a unit of work that leads to the rows d raises: the
\* first constraint the storage layer finds broken, or nothing ("").
IntegrityError(d) ==
    IF ~NotNullHolds(d) THEN "NotNullViolation"
    ELSE IF ~UniqueHolds(d) THEN "UniqueViolation"
    ELSE IF ~ForeignKeysHold(d) THEN "ForeignKeyViolation"
    ELSE ""

\* db.session.commit() of a unit of work named op that leads to the rows d;
\* on IntegrityError the session is rolled back.  `last` keeps the error and
\* the tables the commit wrote to.  (The rows and the error are bound once.)
Commit(op, d) ==
    \E rows \in {d} : \E e \in {IntegrityError(rows)} :
       /\ db' = IF e = "" THEN rows ELSE db
       /\ last' = [op |-> op, error |-> e,
                   wrote |-> IF e = "" THEN {t \in Tables : rows[t] # db[t]}
                             ELSE {}]
       /\ UNCHANGED <<obj, latest, issued, ret>>

With(t, T) == [db EXCEPT ![t] = T]

----------------------------------------------------------------------------
(* User rows. *)

\* A password_hash as a User object carries it to the session: None when
\* set_password was never called on the object.
StoredHashes == {None, SetPasswordWith(<<"a">>, <<"x">>)}

NewUser(username, email, password_hash) ==
    [id |-> NextId(db.user), username |-> username, email |-> email,
     password_hash |-> password_hash]

\* db.session.add(User(...)); commit
CreateUser(username, email, password_hash) ==
    Commit("CreateUser",
           With("user", db.user \cup {NewUser(username, email, password_hash)}))

\* user.username = ...; user.email = ...; commit
UpdateUser(id, username, email) ==
    /\ id \in Ids(db.user)
    /\ LET u == CHOOSE r \in db.user : r.id = id
           v == [u EXCEPT !.username = username, !.email = email]
       IN /\ v # u
          /\ Commit("UpdateUser", With("user", (db.user \ {u}) \cup {v}))

\* User.scans has no delete cascade: the unit of work detaches the user's
\* scans by setting their user_id to None, then deletes the user's row.
\* Report and FirewallRule are no relationship of User: their rows are not
\* touched.
DeleteUserRows(id) ==
    LET u == {r \in db.user : r.id = id}
        owned == {r \in db.scan : r.user_id = Some(id)}
        detached == {[r EXCEPT !.user_id = None] : r \in owned}
    IN [db EXCEPT !["user"] = db.user \ u,
                  !["scan"] = (db.scan \ owned) \cup detached]

\* db.session.delete(user); commit
DeleteUser(id) ==
    /\ id \in Ids(db.user)
    /\ Commit("DeleteUser", DeleteUserRows(id))

----------------------------------------------------------------------------
(* Scan rows. *)

\* status has default='pending'.
NewScan(user_id, name, network_range) ==
    [id |-> NextId(db.scan), user_id |-> user_id, name |-> name,
     network_range |-> network_range, status |-> "pending"]

\* db.session.add(Scan(...)); commit
CreateScan(user_id, name, network_range) ==
    Commit("CreateScan",
           With("scan", db.scan \cup {NewScan(user_id, name, network_range)}))

\* scan.status = status; commit.  The column is a String: any of the
\* documented values may follow any other.
SetScanStatus(id, status) ==
    /\ id \in Ids(db.scan)
    /\ LET s == CHOOSE r \in db.scan : r.id = id
       IN /\ s.status # status
          /\ Commit("SetScanStatus",
                    With("scan", (db.scan \ {s}) \cup {[s EXCEPT !.status = status]}))

\* Scan.devices taking in the devices of every scan.
DevicesOf_AnyScan(id) == db.device

\* Scan.devices, cascade='all, delete-orphan': every Device of the scan.
DevicesOf(id) == {r \in db.device : r.scan_id = Some(id)}
\* Device.vulnerabilities, cascade='all, delete-orphan'.
VulnerabilitiesOf(ds) == {r \in db.vulnerability : r.device_id \subseteq Ids(ds) /\ r.device_id # None}
\* Scan.solar_assessment, uselist=False: the relationship loads one row, also
\* when several rows name the scan; which one is the storage layer's choice.
SolarAssessmentsLoaded(id) ==
    LET rows == {r \in db.solar_assessment : r.scan_id = Some(id)}
    IN IF rows = {} THEN {{}} ELSE {{r} : r \in rows}
\* Scan.reports (the backref of Report.scan) has no delete cascade.
ReportsOf(id) == {r \in db.report : r.scan_id = Some(id)}

\* The rows after the unit of work that deletes scan id, `loaded` being what
\* Scan.solar_assessment loaded: the devices, their vulnerabilities and the
\* loaded assessment are deleted, the reports are detached (scan_id None).
DeleteScanRows(id, loaded) ==
    LET ds == DevicesOf(id)
        rs == ReportsOf(id)
    IN [db EXCEPT !["scan"] = {r \in db.scan : r.id # id},
                  !["device"] = db.device \ ds,
                  !["vulnerability"] = db.vulnerability \ VulnerabilitiesOf(ds),
                  !["solar_assessment"] = db.solar_assessment \ loaded,
                  !["report"] = (db.report \ rs)
                                \cup {[r EXCEPT !.scan_id = None] : r \in rs}]

\* db.session.delete(scan); commit
DeleteScan(id) ==
    /\ id \in Ids(db.scan)
    /\ \E loaded \in SolarAssessmentsLoaded(id) :
         Commit("DeleteScan", DeleteScanRows(id, loaded))

----------------------------------------------------------------------------
(* Device and Vulnerability rows. *)

NewDevice(scan_id, ip_address) ==
    [id |-> NextId(db.device), scan_id |-> scan_id, ip_address |-> ip_address]

\* db.session.add(Device(...)); commit
CreateDevice(scan_id, ip_address) ==
    Commit("CreateDevice",
           With("device", db.device \cup {NewDevice(scan_id, ip_address)}))

\* db.session.delete(device); commit: the vulnerabilities go with it.
DeleteDevice(id) ==
    /\ id \in Ids(db.device)
    /\ LET d == {r \in db.device : r.id = id}
       IN Commit("DeleteDevice",
                 [db EXCEPT !["device"] = db.device \ d,
                            !["vulnerability"] = db.vulnerability \ VulnerabilitiesOf(d)])

NewVulnerability(device_id, name) ==
    [id |-> NextId(db.vulnerability), device_id |-> device_id, name |-> name]

\* db.session.add(Vulnerability(...)); commit
CreateVulnerability(device_id, name) ==
    Commit("CreateVulnerability",
           With("vulnerability",
                db.vulnerability \cup {NewVulnerability(device_id, name)}))

\* db.session.delete(vulnerability); commit
DeleteVulnerability(id) ==
    /\ id \in Ids(db.vulnerability)
    /\ Commit("DeleteVulnerability",
              With("vulnerability", {r \in db.vulnerability : r.id # id}))

----------------------------------------------------------------------------
(* Report, ThreatIntelligence and FirewallRule rows. *)

NewReport(user_id, scan_id) ==
    [id |-> NextId(db.report), user_id |-> user_id, scan_id |-> scan_id]

\* db.session.add(Report(...)); commit
CreateReport(user_id, scan_id) ==
    Commit("CreateReport",
           With("report", db.report \cup {NewReport(user_id, scan_id)}))

\* db.session.delete(report); commit
DeleteReport(id) ==
    /\ id \in Ids(db.report)
    /\ Commit("DeleteReport", With("report", {r \in db.report : r.id # id}))

NewThreatIntelligence(title) ==
    [id |-> NextId(db.threat_intelligence), title |-> title]

\* db.session.add(ThreatIntelligence(...)); commit
CreateThreatIntelligence(title) ==
    Commit("CreateThreatIntelligence",
           With("threat_intelligence",
                db.threat_intelligence \cup {NewThreatIntelligence(title)}))

\* db.session.delete(threat); commit
DeleteThreatIntelligence(id) ==
    /\ id \in Ids(db.threat_intelligence)
    /\ Commit("DeleteThreatIntelligence",
              With("threat_intelligence",
                   {r \in db.threat_intelligence : r.id # id}))

NewFirewallRule(user_id, name) ==
    [id |-> NextId(db.firewall_rule), user_id |-> user_id, name |-> name]

\* db.session.add(FirewallRule(...)); commit
CreateFirewallRule(user_id, name) ==
    Commit("CreateFirewallRule",
           With("firewall_rule",
                db.firewall_rule \cup {NewFirewallRule(user_id, name)}))

\* db.session.delete(rule); commit
DeleteFirewallRule(id) ==
    /\ id \in Ids(db.firewall_rule)
    /\ Commit("DeleteFirewallRule",
              With("firewall_rule", {r \in db.firewall_rule : r.id # id}))

----------------------------------------------------------------------------
(* SolarAssessment rows. *)

NewSolarAssessment(scan_id) ==
    [id |-> NextId(db.solar_assessment), scan_id |-> scan_id]

\* db.session.add(SolarAssessment(scan_id=...)); commit.  scan_id carries a
\* foreign key and nullable=False, and nothing else.
CreateSolarAssessment(scan_id) ==
    Commit("CreateSolarAssessment",
           With("solar_assessment",
                db.solar_assessment \cup {NewSolarAssessment(scan_id)}))

\* scan.solar_assessment = SolarAssessment(); commit.  delete-orphan: the
\* assessment the relationship had loaded is deleted with the replacement.
AssignSolarAssessment(id) ==
    /\ id \in Ids(db.scan)
    /\ \E loaded \in SolarAssessmentsLoaded(id) :
         Commit("AssignSolarAssessment",
                With("solar_assessment",
                     (db.solar_assessment \ loaded)
                     \cup {NewSolarAssessment(Some(id))}))

\* db.session.delete(assessment); commit
DeleteSolarAssessment(id) ==
    /\ id \in Ids(db.solar_assessment)
    /\ Commit("DeleteSolarAssessment",
              With("solar_assessment", {r \in db.solar_assessment : r.id # id}))

----------------------------------------------------------------------------
(* The units of work of the schema.  Each specification explores the rows  *)
(* up to its bound; the inputs of a unit of work include the ids that name *)
(* no row and, under Spec, the unset value of every column.                *)

\* The creations and deletions on every table and the update of a User,
\* with every input a column can be given.
Next ==
    \/ \E n \in Usernames, e \in Emails, h \in StoredHashes :
         CreateUser(n, e, h) /\ Within(db', MaxRows)
    \/ \E i \in 1..MaxId, n \in Usernames, e \in Emails :
         UpdateUser(i, n, e) /\ Within(db', MaxRows)
    \/ \E i \in 1..MaxId : DeleteUser(i) /\ Within(db', MaxRows)
    \/ \E u \in IdInputs, n \in Texts, r \in Texts :
         CreateScan(u, n, r) /\ Within(db', MaxRows)
    \/ \E i \in 1..MaxId : DeleteScan(i) /\ Within(db', MaxRows)
    \/ \E sc \in IdInputs, ip \in Texts :
         CreateDevice(sc, ip) /\ Within(db', MaxRows)
    \/ \E i \in 1..MaxId : DeleteDevice(i) /\ Within(db', MaxRows)
    \/ \E dv \in IdInputs, n \in Texts :
         CreateVulnerability(dv, n) /\ Within(db', MaxRows)
    \/ \E i \in 1..MaxId : DeleteVulnerability(i) /\ Within(db', MaxRows)
    \/ \E u \in IdInputs, sc \in IdInputs :
         CreateReport(u, sc) /\ Within(db', MaxRows)
    \/ \E i \in 1..MaxId : DeleteReport(i) /\ Within(db', MaxRows)
    \/ \E t \in Texts : CreateThreatIntelligence(t) /\ Within(db', MaxRows)
    \/ \E i \in 1..MaxId : DeleteThreatIntelligence(i) /\ Within(db', MaxRows)
    \/ \E u \in IdInputs, n \in Texts :
         CreateFirewallRule(u, n) /\ Within(db', MaxRows)
    \/ \E i \in 1..MaxId : DeleteFirewallRule(i) /\ Within(db', MaxRows)
    \/ \E sc \in IdInputs : CreateSolarAssessment(sc) /\ Within(db', MaxRows)
    \/ \E i \in 1..MaxId : AssignSolarAssessment(i) /\ Within(db', MaxRows)
    \/ \E i \in 1..MaxId : DeleteSolarAssessment(i) /\ Within(db', MaxRows)

Spec == Init /\ [][Next]_vars

\* The accounts a part of the schema is explored with: each username with
\* an email of its own and a password set.
Accounts == {<<Some("alice"), Some("a@x")>>, <<Some("bob"), Some("b@x")>>}
AccountHash == SetPasswordWith(<<"a">>, <<"x">>)
\* Ids given for a parent: each names a row or none.
ParentIds == {Some(i) : i \in 1..MaxId}
Text == Some("text")

\* The creations and deletions of User, Scan, Device, Vulnerability, Report
\* and SolarAssessment rows, every required field given.
NextScans ==
    \/ \E a \in Accounts :
         CreateUser(a[1], a[2], AccountHash) /\ Within(db', MaxPartRows)
    \/ \E i \in 1..MaxId : DeleteUser(i) /\ Within(db', MaxPartRows)
    \/ \E u \in ParentIds : CreateScan(u, Text, Text) /\ Within(db', MaxPartRows)
    \/ \E i \in 1..MaxId : DeleteScan(i) /\ Within(db', MaxPartRows)
    \/ \E sc \in ParentIds : CreateDevice(sc, Text) /\ Within(db', MaxPartRows)
    \/ \E i \in 1..MaxId : DeleteDevice(i) /\ Within(db', MaxPartRows)
    \/ \E dv \in ParentIds :
         CreateVulnerability(dv, Text) /\ Within(db', MaxPartRows)
    \/ \E i \in 1..MaxId : DeleteVulnerability(i) /\ Within(db', MaxPartRows)
    \/ \E u \in ParentIds, sc \in ParentIds :
         CreateReport(u, sc) /\ Within(db', MaxPartRows)
    \/ \E i \in 1..MaxId : DeleteReport(i) /\ Within(db', MaxPartRows)
    \/ \E sc \in ParentIds : CreateSolarAssessment(sc) /\ Within(db', MaxPartRows)
    \/ \E i \in 1..MaxId : AssignSolarAssessment(i) /\ Within(db', MaxPartRows)
    \/ \E i \in 1..MaxId : DeleteSolarAssessment(i) /\ Within(db', MaxPartRows)

SpecScans == Init /\ [][NextScans]_vars

\* Scans through their statuses, and their SolarAssessments.
NextSolar ==
    \/ \E a \in Accounts :
         CreateUser(a[1], a[2], AccountHash) /\ Within(db', MaxPartRows)
    \/ \E u \in ParentIds : CreateScan(u, Text, Text) /\ Within(db', MaxPartRows)
    \/ \E i \in 1..MaxId, st \in ScanStatus :
         SetScanStatus(i, st) /\ Within(db', MaxPartRows)
    \/ \E i \in 1..MaxId : DeleteScan(i) /\ Within(db', MaxPartRows)
    \/ \E sc \in ParentIds : CreateSolarAssessment(sc) /\ Within(db', MaxPartRows)
    \/ \E i \in 1..MaxId : AssignSolarAssessment(i) /\ Within(db', MaxPartRows)
    \/ \E i \in 1..MaxId : DeleteSolarAssessment(i) /\ Within(db', MaxPartRows)

SpecSolar == Init /\ [][NextSolar]_vars

\* Users with what they own: their Scans and FirewallRules.
NextAccounts ==
    \/ \E n \in Usernames, e \in Emails, h \in StoredHashes :
         CreateUser(n, e, h) /\ Within(db', MaxPartRows)
    \/ \E i \in 1..MaxId, n \in Usernames, e \in Emails :
         UpdateUser(i, n, e) /\ Within(db', MaxPartRows)
    \/ \E i \in 1..MaxId : DeleteUser(i) /\ Within(db', MaxPartRows)
    \/ \E u \in ParentIds : CreateScan(u, Text, Text) /\ Within(db', MaxPartRows)
    \/ \E i \in 1..MaxId : DeleteScan(i) /\ Within(db', MaxPartRows)
    \/ \E u \in ParentIds :
         CreateFirewallRule(u, Text) /\ Within(db', MaxPartRows)
    \/ \E i \in 1..MaxId : DeleteFirewallRule(i) /\ Within(db', MaxPartRows)

SpecAccounts == Init /\ [][NextAccounts]_vars

----------------------------------------------------------------------------
(* Credentials: C1, C2, C8 (checked under SpecCred). *)

\* C1: a check_password call on a User whose password was set returns true
\* when its plaintext is the one most recently given to set_password on that
\* User, and false when it is any other plaintext, however many
\* set_password calls came before.
C1_CheckMatchesLatestPassword ==
    (ret.op = "check_password" /\ latest[ret.u] # None) =>
        /\ ret.raised = ""
        /\ ret.out = Some(ret.password = Val(latest[ret.u]))

\* C1's case: the same User was given two different plaintexts, and the
\* first of them no longer verifies.
C1_Witness ==
    /\ Len(issued) = 2
    /\ issued[1].password # issued[2].password
    /\ \A u \in UserObjects \ {ret.u} : obj[u] = None
    /\ ret.op = "check_password"
    /\ ret.password = issued[1].password
    /\ ret.out = Some(FALSE)

C8_CheckPasswordNeverRaises ==
    ret.op = "check_password" =>
        ret.raised = "" /\ ret.out \in {Some(TRUE), Some(FALSE)}

----------------------------------------------------------------------------
(* The schema: C3, C4, C7 (under SpecScans), C6 (under SpecSolar), C5 and  *)
(* C10 (under SpecAccounts), C9 (under Spec).                              *)

OwnDevices(d, id) == {r \in d.device : r.scan_id = Some(id)}
OwnVulnerabilities(d, id) ==
    {v \in d.vulnerability :
        \E r \in OwnDevices(d, id) : v.device_id = Some(r.id)}
OwnAssessments(d, id) == {r \in d.solar_assessment : r.scan_id = Some(id)}

\* C3: a step that deletes a Scan removes exactly that Scan's row, every
\* Device of the Scan, every Vulnerability of those Devices and every
\* SolarAssessment of the Scan; the Users, the other Scans and the Devices,
\* Vulnerabilities and SolarAssessments of other Scans are as before.
C3_DeleteScanCascades ==
    [][\A s \in db.scan :
         s.id \notin Ids(db'.scan) =>
            /\ db'.scan = db.scan \ {s}
            /\ db'.device = db.device \ OwnDevices(db, s.id)
            /\ db'.vulnerability = db.vulnerability \ OwnVulnerabilities(db, s.id)
            /\ db'.solar_assessment = db.solar_assessment \ OwnAssessments(db, s.id)
            /\ db'.user = db.user]_vars

\* C3's case: the deletion of a Scan went through and took a Device and the
\* Vulnerability of that Device with it, and the User is still there.
C3_Witness ==
    /\ last.op = "DeleteScan" /\ last.error = ""
    /\ last.wrote = {"scan", "device", "vulnerability"}
    /\ db.user # {}

Dangling(o, T) == o # None /\ ~(o \subseteq Ids(T))

\* C4: the creation of a Device or SolarAssessment whose scan_id names no
\* Scan, of a Vulnerability whose device_id names no Device, or of a Report
\* whose user_id or scan_id names no User or Scan raises an error and leaves
\* the stored rows as they were.
C4_MissingParentRejected ==
    [][/\ last'.op = "CreateDevice" => \A sc \in IdInputs, ip \in Texts :
            (Dangling(sc, db.scan) /\ CreateDevice(sc, ip))
               => last'.error # "" /\ db' = db
       /\ last'.op = "CreateSolarAssessment" => \A sc \in IdInputs :
            (Dangling(sc, db.scan) /\ CreateSolarAssessment(sc))
               => last'.error # "" /\ db' = db
       /\ last'.op = "CreateVulnerability" => \A dv \in IdInputs, n \in Texts :
            (Dangling(dv, db.device) /\ CreateVulnerability(dv, n))
               => last'.error # "" /\ db' = db
       /\ last'.op = "CreateReport" => \A u \in IdInputs, sc \in IdInputs :
            ((Dangling(u, db.user) \/ Dangling(sc, db.scan)) /\ CreateReport(u, sc))
               => last'.error # "" /\ db' = db]_vars

\* C4's case: a Device was refused for its scan_id while another Scan exists.
C4_Witness ==
    /\ last.op = "CreateDevice" /\ last.error = "ForeignKeyViolation"
    /\ db.scan # {}

\* C5, the first half: no two User rows share a username or an email.
UsersDistinct ==
    \A a, b \in db.user :
        a # b => a.id # b.id /\ a.username # b.username /\ a.email # b.email

\* C5: no two User rows share a username or an email, and the creation or
\* update of a User with every required field set and the username or email
\* of another User raises the unique violation and leaves the rows as they were.
C5_UniqueUsernameAndEmail ==
    /\ []UsersDistinct
    /\ [][/\ last'.op = "CreateUser" =>
             \A n \in Usernames, e \in Emails, h \in StoredHashes :
               (/\ n # None /\ e # None /\ h # None
                /\ \E o \in db.user : o.username = n \/ o.email = e
                /\ CreateUser(n, e, h))
                  => last'.error = "UniqueViolation" /\ db' = db
          /\ last'.op = "UpdateUser" =>
             \A i \in 1..MaxId, n \in Usernames, e \in Emails :
               (/\ n # None /\ e # None
                /\ \E o \in db.user : o.id # i /\ (o.username = n \/ o.email = e)
                /\ UpdateUser(i, n, e))
                  => last'.error = "UniqueViolation" /\ db' = db]_vars

\* C5's case: an update that would give a User the email of another was
\* refused as a duplicate.
C5_Witness ==
    /\ last.op = "UpdateUser" /\ last.error = "UniqueViolation"
    /\ Cardinality(db.user) = 2

\* C6 as stated: no two SolarAssessment rows name the same Scan.
C6_OneAssessmentPerScan ==
    \A a, b \in db.solar_assessment : a.scan_id = b.scan_id => a = b

\* C7: every Device and SolarAssessment row names an existing Scan, every
\* Vulnerability row an existing Device, every Report row an existing User
\* and an existing Scan.
C7_EveryRowHasItsParent ==
    /\ \A r \in db.device : \E p \in db.scan : r.scan_id = Some(p.id)
    /\ \A r \in db.solar_assessment : \E p \in db.scan : r.scan_id = Some(p.id)
    /\ \A r \in db.vulnerability : \E p \in db.device : r.device_id = Some(p.id)
    /\ \A r \in db.report :
         /\ \E p \in db.user : r.user_id = Some(p.id)
         /\ \E p \in db.scan : r.scan_id = Some(p.id)

\* C7's case: the deletion of a User that a Report names was refused, and
\* the Report is still there.
C7_Witness ==
    /\ last.op = "DeleteUser" /\ last.error = "ForeignKeyViolation"
    /\ db.report # {}

\* C9, the first half: no stored row has a required field unset.
NoRequiredFieldMissing ==
    /\ \A r \in db.user : None \notin {r.username, r.email, r.password_hash}
    /\ \A r \in db.scan : None \notin {r.user_id, r.name, r.network_range}
    /\ \A r \in db.device : None \notin {r.scan_id, r.ip_address}
    /\ \A r \in db.vulnerability : None \notin {r.device_id, r.name}
    /\ \A r \in db.report : None \notin {r.user_id, r.scan_id}
    /\ \A r \in db.threat_intelligence : r.title # None
    /\ \A r \in db.firewall_rule : None \notin {r.user_id, r.name}
    /\ \A r \in db.solar_assessment : r.scan_id # None

\* C9: no stored row has a required field unset, and the creation of a row
\* that leaves a required field unset raises the not-null violation and
\* leaves the rows as they were.
C9_RequiredFieldsEnforced ==
    /\ []NoRequiredFieldMissing
    /\ [][/\ last'.op = "CreateUser" =>
             \A n \in Usernames, e \in Emails, h \in StoredHashes :
               (None \in {n, e, h} /\ CreateUser(n, e, h))
                  => last'.error = "NotNullViolation" /\ db' = db
          /\ last'.op = "UpdateUser" =>
             \A i \in 1..MaxId, n \in Usernames, e \in Emails :
               (None \in {n, e} /\ UpdateUser(i, n, e))
                  => last'.error = "NotNullViolation" /\ db' = db
          /\ last'.op = "CreateScan" => \A u \in IdInputs, n \in Texts, r \in Texts :
               (None \in {u, n, r} /\ CreateScan(u, n, r))
                  => last'.error = "NotNullViolation" /\ db' = db
          /\ last'.op = "CreateDevice" => \A sc \in IdInputs, ip \in Texts :
               (None \in {sc, ip} /\ CreateDevice(sc, ip))
                  => last'.error = "NotNullViolation" /\ db' = db
          /\ last'.op = "CreateVulnerability" => \A dv \in IdInputs, n \in Texts :
               (None \in {dv, n} /\ CreateVulnerability(dv, n))
                  => last'.error = "NotNullViolation" /\ db' = db
          /\ last'.op = "CreateReport" => \A u \in IdInputs, sc \in IdInputs :
               (None \in {u, sc} /\ CreateReport(u, sc))
                  => last'.error = "NotNullViolation" /\ db' = db
          /\ last'.op = "CreateThreatIntelligence" => \A t \in Texts :
               (t = None /\ CreateThreatIntelligence(t))
                  => last'.error = "NotNullViolation" /\ db' = db
          /\ last'.op = "CreateFirewallRule" => \A u \in IdInputs, n \in Texts :
               (None \in {u, n} /\ CreateFirewallRule(u, n))
                  => last'.error = "NotNullViolation" /\ db' = db
          /\ last'.op = "CreateSolarAssessment" => \A sc \in IdInputs :
               (sc = None /\ CreateSolarAssessment(sc))
                  => last'.error = "NotNullViolation" /\ db' = db
          /\ last'.error = "NotNullViolation" => db' = db]_vars

\* C9's case: a User with a required field unset was refused while another
\* User is stored.
C9_Witness ==
    /\ last.op = "CreateUser" /\ last.error = "NotNullViolation"
    /\ db.user # {}

\* C10, the first half: every Scan and FirewallRule row names an existing User.
OwnersExist ==
    /\ \A r \in db.scan : \E p \in db.user : r.user_id = Some(p.id)
    /\ \A r \in db.firewall_rule : \E p \in db.user : r.user_id = Some(p.id)

\* C10: every Scan and FirewallRule row names an existing User, and the
\* deletion of a User that owns a Scan or a FirewallRule either raises an
\* error and leaves the rows as they were, or leaves no row of that User.
C10_NoOwnerlessScanOrRule ==
    /\ []OwnersExist
    /\ [][last'.op = "DeleteUser" => \A i \in 1..MaxId :
            (/\ \E r \in db.scan \cup db.firewall_rule : r.user_id = Some(i)
             /\ DeleteUser(i))
               => \/ last'.error # "" /\ db' = db
                  \/ \A r \in db'.scan \cup db'.firewall_rule :
                       r.user_id # Some(i)]_vars

\* C10's case: the deletion of a User that owns a Scan was refused.
C10_Witness ==
    /\ last.op = "DeleteUser" /\ last.error = "NotNullViolation"
    /\ db.scan # {}

====
